---- MODULE Spec2Model ----
(***************************************************************************)
(* Model of memnn/preprocess.py: the bAbI tokenizer, the story parser,     *)
(* get_stories, and the vocabulary / vectorisation steps of Data.__init__. *)
(*                                                                         *)
(* Text is modelled at character level: a Python str is a sequence of      *)
(* one-character strings, so stripping, splitting, int() and the regular   *)
(* expression split are computed, not assumed.                             *)
(***************************************************************************)
EXTENDS Integers, Sequences, FiniteSets, TLC

VARIABLES
  splitsOnEmpty,    \* re.split splits on empty matches (Python >= 3.7) or not
  pc,               \* position of the running call
  err,              \* the exception that ended the call, "" when none
  sent, tokens,     \* tokenize: argument and returned list
  lines, only_supporting, max_length,   \* get_stories: file lines, arguments
  i, story, data,   \* parse_stories: lines consumed, story buffer, triples
  stories,          \* get_stories: returned examples
  fetch,            \* Data.__init__: outcome of get_file
  printed,          \* Data.__init__: remediation messages printed
  opened,           \* Data.__init__: whether tarfile.open(path) ran
  attrs,            \* Data.__init__: attributes of self assigned so far
  train_stories, test_stories,
  vocab_size, story_maxlen, query_maxlen, word_idx, pickled,
  inputs_train, queries_train, answers_train,
  inputs_test, queries_test, answers_test

vars == <<splitsOnEmpty, pc, err, sent, tokens, lines, only_supporting,
          max_length, i, story, data, stories, fetch, printed, opened, attrs,
          train_stories, test_stories, vocab_size, story_maxlen,
          query_maxlen, word_idx, pickled, inputs_train, queries_train,
          answers_train, inputs_test, queries_test, answers_test>>

tokVars == <<sent, tokens>>
parseVars == <<lines, only_supporting, max_length, i, story, data, stories>>
dataVars == <<fetch, printed, opened, attrs, train_stories, test_stories, vocab_size,
              story_maxlen, query_maxlen, word_idx, pickled, inputs_train,
              queries_train, answers_train, inputs_test, queries_test,
              answers_test>>

(***************************************************************************)
(* Bounds of the model.                                                    *)
(***************************************************************************)
\* longest enumerated argument of tokenize, in characters
MaxChars == 4
\* longest enumerated corpus file, in lines
MaxLines == 3
\* largest enumerated max_length argument of get_stories
MaxLen == 3

(***************************************************************************)
(* Characters.  \w is [a-zA-Z0-9_]; \W is everything else, which over this *)
(* alphabet is whitespace and punctuation.                                 *)
(***************************************************************************)
WordChars == {"a", "b", "d", "e", "h", "i", "l", "o", "p", "r", "s", "t",
              "B", "W", "1", "2", "3"}
SpaceChars == {" ", "\t"}
PunctChars == {".", "?"}

\* Python's None and the absence of a value
None == <<"None">>

\* s[a:b] with 1-based positions a <= b, b exclusive
Slice(s, a, b) == SubSeq(s, a, b - 1)

RECURSIVE lstrip(_)
lstrip(s) == IF s # <<>> /\ Head(s) \in SpaceChars THEN lstrip(Tail(s)) ELSE s

RECURSIVE rstrip(_)
rstrip(s) ==
  IF s # <<>> /\ s[Len(s)] \in SpaceChars
  THEN rstrip(SubSeq(s, 1, Len(s) - 1))
  ELSE s

\* str.strip()
strip(s) == rstrip(lstrip(s))

(***************************************************************************)
(* re.split('(\W+)?', sent).  The pattern matches at every position: the   *)
(* greedy run of non-word characters there, or the empty string.           *)
(***************************************************************************)
\* end of the match of (\W+)? attempted at position p
RECURSIVE MatchEnd(_, _)
MatchEnd(s, p) ==
  IF p <= Len(s) /\ s[p] \notin WordChars THEN MatchEnd(s, p + 1) ELSE p

\* re.split before Python 3.7: an empty match does not split, the scan
\* skips one character and searches again.
RECURSIVE split_legacy(_, _, _)
split_legacy(s, start, last) ==
  IF start > Len(s) + 1
  THEN <<Slice(s, last, Len(s) + 1)>>
  ELSE LET e == MatchEnd(s, start) IN
       IF e = start
       THEN IF last = Len(s) + 1
            THEN <<Slice(s, last, Len(s) + 1)>>
            ELSE split_legacy(s, start + 1, last)
       ELSE <<Slice(s, last, start), Slice(s, start, e)>>
            \o split_legacy(s, e, e)

\* re.split from Python 3.7 on: an empty match splits too (its group is
\* None); after an empty match the next match must advance.
RECURSIVE split_empty(_, _, _, _)
split_empty(s, start, last, must_advance) ==
  LET e == MatchEnd(s, start) IN
  IF must_advance /\ e = start
  THEN IF start + 1 > Len(s) + 1
       THEN <<Slice(s, last, Len(s) + 1)>>
       ELSE LET st == start + 1
                e2 == MatchEnd(s, st)
            IN <<Slice(s, last, st),
                 IF e2 = st THEN None ELSE Slice(s, st, e2)>>
               \o split_empty(s, e2, e2, e2 = st)
  ELSE <<Slice(s, last, start), IF e = start THEN None ELSE Slice(s, start, e)>>
       \o split_empty(s, e, e, e = start)

re_split(s) ==
  IF splitsOnEmpty THEN split_empty(s, 1, 1, FALSE) ELSE split_legacy(s, 1, 1)

\* x.strip() on None raises AttributeError
tokenize_raises(s) ==
  \E k \in DOMAIN re_split(s) : re_split(s)[k] = None

RECURSIVE StripAll(_)
StripAll(xs) ==
  IF xs = <<>> THEN <<>> ELSE <<strip(Head(xs))>> \o StripAll(Tail(xs))

NonEmpty(x) == x # <<>>

\* [x.strip() for x in re.split('(\W+)?', sent) if x.strip()]
tokenize(s) == SelectSeq(StripAll(re_split(s)), NonEmpty)

(***************************************************************************)
(* Python values that the story buffer mixes: token lists and the ''       *)
(* placeholder appended after a question (line 55).                        *)
(***************************************************************************)
ListVal(xs) == [py |-> "list", v |-> xs]
StrVal(cs) == [py |-> "str", v |-> cs]

\* truth value of a list or str: non-empty
Truthy(x) == x.v # <<>>

\* line.decode('utf-8'): the corpus alphabet here is ASCII, one byte a character
decode(bytes) == bytes

\* position of the first occurrence of character c in s, 0 when absent
FirstIndex(s, c) ==
  IF \E k \in DOMAIN s : s[k] = c
  THEN CHOOSE k \in DOMAIN s : s[k] = c /\ \A j \in 1..(k - 1) : s[j] # c
  ELSE 0

\* s.split(c) for a one-character separator: every field, empty ones too
RECURSIVE split_char(_, _)
split_char(s, c) ==
  LET k == FirstIndex(s, c) IN
  IF k = 0 THEN <<s>>
  ELSE <<SubSeq(s, 1, k - 1)>> \o split_char(SubSeq(s, k + 1, Len(s)), c)

\* s.split(' ', 1): at most one split
split_once(s, c) ==
  LET k == FirstIndex(s, c) IN
  IF k = 0 THEN <<s>> ELSE <<SubSeq(s, 1, k - 1), SubSeq(s, k + 1, Len(s))>>

\* s.split(): fields separated by runs of whitespace, none empty
RECURSIVE split_ws(_)
split_ws(s) ==
  LET t == lstrip(s) IN
  IF t = <<>> THEN <<>>
  ELSE LET k == IF \E j \in DOMAIN t : t[j] \in SpaceChars
                THEN CHOOSE j \in DOMAIN t :
                       /\ t[j] \in SpaceChars
                       /\ \A m \in 1..(j - 1) : t[m] \notin SpaceChars
                ELSE Len(t) + 1
       IN <<SubSeq(t, 1, k - 1)>> \o split_ws(SubSeq(t, k, Len(t)))

DigitChars == {"0", "1", "2", "3", "4", "5", "6", "7", "8", "9"}

DigitVal(c) ==
  CASE c = "0" -> 0 [] c = "1" -> 1 [] c = "2" -> 2 [] c = "3" -> 3
    [] c = "4" -> 4 [] c = "5" -> 5 [] c = "6" -> 6 [] c = "7" -> 7
    [] c = "8" -> 8 [] c = "9" -> 9

\* int(s) raises ValueError unless s, stripped, is a non-empty digit string
int_raises(s) ==
  LET t == strip(s) IN t = <<>> \/ \E k \in DOMAIN t : t[k] \notin DigitChars

RECURSIVE DecimalValue(_)
DecimalValue(t) ==
  IF t = <<>> THEN 0
  ELSE 10 * DecimalValue(SubSeq(t, 1, Len(t) - 1)) + DigitVal(t[Len(t)])

int(s) == DecimalValue(strip(s))

\* story[i - 1] for i in supporting: Python indexing, negative indices
\* count from the end, anything else out of range raises IndexError
RECURSIVE select_supporting(_, _)
select_supporting(st, ids) ==
  IF ids = <<>> THEN [err |-> "", val |-> <<>>]
  ELSE IF int_raises(Head(ids)) THEN [err |-> "ValueError", val |-> <<>>]
  ELSE LET idx == int(Head(ids)) - 1
           n == Len(st)
       IN IF idx >= n \/ idx < 0 - n THEN [err |-> "IndexError", val |-> <<>>]
          ELSE LET x == IF idx >= 0 THEN st[idx + 1] ELSE st[n + idx + 1]
                   rest == select_supporting(st, Tail(ids))
               IN IF rest.err # "" THEN rest
                  ELSE [err |-> "", val |-> <<x>> \o rest.val]

\* mutant of all_substories: the '' placeholders are not filtered out
all_substories_unfiltered(st) == st

\* substory = [x for x in story if x]
all_substories(st) == SelectSeq(st, Truthy)

\* mutant of reset_story: the buffer is never emptied
reset_story_never(st, nid) == st

\* if nid == 1: story = []
reset_story(st, nid) == IF nid = 1 THEN <<>> ELSE st

\* the body of the loop of parse_stories for one raw line: the new story
\* buffer and triples, or the exception the line raises
parse_line(st, dt, only_sup, raw) ==
  LET line == strip(decode(raw))
      parts == split_once(line, " ")
  IN
  IF Len(parts) # 2 \/ int_raises(parts[1])
  THEN [story |-> st, data |-> dt, err |-> "ValueError"]
  ELSE
  LET nid == int(parts[1])
      rest == parts[2]
      st1 == reset_story(st, nid)
  IN
  IF FirstIndex(rest, "\t") # 0
  THEN LET f == split_char(rest, "\t") IN
       IF Len(f) # 3
       THEN [story |-> st1, data |-> dt, err |-> "ValueError"]
       ELSE IF tokenize_raises(f[1])
       THEN [story |-> st1, data |-> dt, err |-> "AttributeError"]
       ELSE LET q == tokenize(f[1])
                sub == IF only_sup
                       THEN select_supporting(st1, split_ws(f[3]))
                       ELSE [err |-> "", val |-> all_substories(st1)]
            IN IF sub.err # ""
               THEN [story |-> st1, data |-> dt, err |-> sub.err]
               ELSE [story |-> Append(st1, StrVal(<<>>)),
                     data |-> Append(dt, [story |-> sub.val, q |-> q, a |-> f[2]]),
                     err |-> ""]
  ELSE IF tokenize_raises(rest)
       THEN [story |-> st1, data |-> dt, err |-> "AttributeError"]
       ELSE [story |-> Append(st1, ListVal(tokenize(rest))),
             data |-> dt, err |-> ""]

\* x + y: lists concatenate with lists and strs with strs, else TypeError
py_add(x, y) ==
  IF x.py = y.py
  THEN [err |-> "", val |-> [py |-> x.py, v |-> x.v \o y.v]]
  ELSE [err |-> "TypeError", val |-> x]

RECURSIVE reduce_add(_, _)
reduce_add(acc, xs) ==
  IF xs = <<>> THEN [err |-> "", val |-> acc]
  ELSE LET r == py_add(acc, Head(xs)) IN
       IF r.err # "" THEN r ELSE reduce_add(r.val, Tail(xs))

\* flatten = lambda data: reduce(lambda x, y: x + y, data); reduce of an empty
\* sequence without initial value raises TypeError
flatten(xs) ==
  IF xs = <<>> THEN [err |-> "TypeError", val |-> ListVal(<<>>)]
  ELSE reduce_add(Head(xs), Tail(xs))

\* max_length is <<>> for None and <<n>> for the integer n;
\* not max_length or len(flatten(story)) < max_length
keeps(ml, n) == ml = <<>> \/ ml[1] = 0 \/ n < ml[1]

RECURSIVE flatten_all(_, _)
flatten_all(dt, ml) ==
  IF dt = <<>> THEN [err |-> "", val |-> <<>>]
  ELSE LET fl == flatten(Head(dt).story) IN
       IF fl.err # "" THEN [err |-> fl.err, val |-> <<>>]
       ELSE LET rest == flatten_all(Tail(dt), ml) IN
            IF rest.err # "" THEN rest
            ELSE [err |-> "",
                  val |-> (IF keeps(ml, Len(fl.val.v))
                           THEN <<[story |-> fl.val, q |-> Head(dt).q,
                                   a |-> Head(dt).a]>>
                           ELSE <<>>) \o rest.val]

RECURSIVE parse_stories(_, _, _, _)
parse_stories(ls, only_sup, st, dt) ==
  IF ls = <<>> THEN [err |-> "", val |-> dt]
  ELSE LET r == parse_line(st, dt, only_sup, Head(ls)) IN
       IF r.err # "" THEN [err |-> r.err, val |-> r.data]
       ELSE parse_stories(Tail(ls), only_sup, r.story, r.data)

\* get_stories(f, only_supporting, max_length) as one call
get_stories(ls, only_sup, ml) ==
  LET d == parse_stories(ls, only_sup, <<>>, <<>>) IN
  IF d.err # "" THEN [err |-> d.err, val |-> <<>>] ELSE flatten_all(d.val, ml)

(***************************************************************************)
(* Enumerated inputs.                                                      *)
(***************************************************************************)
\* the sentence of tokenize's doctest (line 25)
Doctest ==
  <<"B","o","b"," ","d","r","o","p","p","e","d"," ","t","h","e"," ",
    "a","p","p","l","e","."," ","W","h","e","r","e"," ","i","s"," ",
    "t","h","e"," ","a","p","p","l","e","?">>

DoctestTokens ==
  << <<"B","o","b">>, <<"d","r","o","p","p","e","d">>, <<"t","h","e">>,
     <<"a","p","p","l","e">>, <<".">>, <<"W","h","e","r","e">>, <<"i","s">>,
     <<"t","h","e">>, <<"a","p","p","l","e">>, <<"?">> >>

TokAlphabet == {"a", "b", ".", "?", " "}

Sentences ==
  {Doctest} \cup UNION {[1..n -> TokAlphabet] : n \in 0..MaxChars}

\* bodies of corpus lines: two statements and two questions
\* (question TAB answer TAB supporting ids)
BodyS1 == <<"a","b"," ","a",".">>
BodyS2 == <<"b">>
BodyQ1 == <<"a","?","\t","b","\t","1">>
BodyQ2 == <<"?","\t","a","\t","2"," ","1"," ","2">>

Bodies == {BodyS1, BodyS2, BodyQ1, BodyQ2}
DataBodies == {BodyS1, BodyQ1, BodyQ2}

DigitOf(n) ==
  CASE n = 0 -> "0" [] n = 1 -> "1" [] n = 2 -> "2" [] n = 3 -> "3"
    [] n = 4 -> "4" [] n = 5 -> "5" [] n = 6 -> "6" [] n = 7 -> "7"
    [] n = 8 -> "8" [] n = 9 -> "9"

\* a corpus line: its id, a space, its body
MkLine(nid, body) == <<DigitOf(nid)>> \o <<" ">> \o body

\* ids of the lines of a file: the first is 1 or 2, each later one restarts
\* at 1 or continues the story
NidPatterns(n) ==
  {p \in [1..n -> 1..(n + 1)] :
     /\ n > 0 => p[1] \in {1, 2}
     /\ \A k \in 2..n : p[k] \in {1, p[k - 1] + 1}}

FilesOver(bodies) ==
  UNION {{[k \in 1..n |-> MkLine(p[k], b[k])] :
            p \in NidPatterns(n), b \in [1..n -> bodies]} : n \in 0..MaxLines}

\* max_length arguments: None, or an integer
MaxLengths == {<<>>} \cup {<<n>> : n \in 0..MaxLen}

(***************************************************************************)
(* tokenize(sent)                                                          *)
(***************************************************************************)
ParseIdle ==
  /\ lines = <<>> /\ only_supporting = FALSE /\ max_length = <<>>
  /\ i = 0 /\ story = <<>> /\ data = <<>> /\ stories = <<>>

DataIdle ==
  /\ fetch = "pending" /\ printed = 0 /\ opened = FALSE /\ attrs = {}
  /\ train_stories = <<>> /\ test_stories = <<>>
  /\ vocab_size = 0 /\ story_maxlen = 0 /\ query_maxlen = 0
  /\ word_idx = {} /\ pickled = FALSE
  /\ inputs_train = <<>> /\ queries_train = <<>> /\ answers_train = <<>>
  /\ inputs_test = <<>> /\ queries_test = <<>> /\ answers_test = <<>>

TokInit ==
  /\ splitsOnEmpty \in BOOLEAN
  /\ pc = "tokenize" /\ err = ""
  /\ sent \in Sentences /\ tokens = <<>>
  /\ ParseIdle /\ DataIdle

Tokenize ==
  /\ pc = "tokenize"
  /\ IF tokenize_raises(sent)
     THEN pc' = "raised" /\ err' = "AttributeError" /\ tokens' = tokens
     ELSE pc' = "tokenized" /\ err' = err /\ tokens' = tokenize(sent)
  /\ UNCHANGED <<splitsOnEmpty, sent>>
  /\ UNCHANGED parseVars /\ UNCHANGED dataVars

TokNext == Tokenize

SpecTok == TokInit /\ [][TokNext]_vars

(***************************************************************************)
(* get_stories(f, only_supporting, max_length), the loop of parse_stories  *)
(* one line per step                                                       *)
(***************************************************************************)
ParseInit ==
  /\ splitsOnEmpty \in BOOLEAN
  /\ pc = "parse" /\ err = ""
  /\ sent = <<>> /\ tokens = <<>>
  /\ lines \in FilesOver(Bodies)
  /\ only_supporting \in BOOLEAN
  /\ max_length = <<>>
  /\ i = 0 /\ story = <<>> /\ data = <<>> /\ stories = <<>>
  /\ DataIdle

\* one iteration of `for line in lines`
ParseLine ==
  /\ pc = "parse" /\ i < Len(lines)
  /\ LET r == parse_line(story, data, only_supporting, lines[i + 1]) IN
       /\ story' = r.story
       /\ data' = r.data
       /\ err' = r.err
       /\ pc' = IF r.err # "" THEN "raised" ELSE "parse"
  /\ i' = i + 1
  /\ UNCHANGED <<splitsOnEmpty, lines, only_supporting, max_length, stories>>
  /\ UNCHANGED tokVars /\ UNCHANGED dataVars

\* the loop is exhausted: parse_stories returns data, get_stories flattens
\* and filters it under the max_length it was called with
GetStories ==
  /\ pc = "parse" /\ i = Len(lines)
  /\ \E ml \in MaxLengths :
       LET r == flatten_all(data, ml) IN
         /\ max_length' = ml
         /\ stories' = r.val
         /\ err' = r.err
         /\ pc' = IF r.err # "" THEN "raised" ELSE "returned"
  /\ UNCHANGED <<splitsOnEmpty, lines, only_supporting, i, story, data>>
  /\ UNCHANGED tokVars /\ UNCHANGED dataVars

ParseNext == ParseLine \/ GetStories

SpecParse == ParseInit /\ [][ParseNext]_vars

(***************************************************************************)
(* Data.__init__: vocabulary, maximum lengths, word_idx, vectorisation.    *)
(***************************************************************************)
\* code point of a character
Ord(c) ==
  CASE c = "\t" -> 9 [] c = " " -> 32 [] c = "." -> 46 [] c = "?" -> 63
    [] c = "0" -> 48 [] c = "1" -> 49 [] c = "2" -> 50 [] c = "3" -> 51
    [] c = "4" -> 52 [] c = "5" -> 53 [] c = "6" -> 54 [] c = "7" -> 55
    [] c = "8" -> 56 [] c = "9" -> 57 [] c = "B" -> 66 [] c = "W" -> 87
    [] c = "a" -> 97 [] c = "b" -> 98 [] c = "d" -> 100 [] c = "e" -> 101
    [] c = "h" -> 104 [] c = "i" -> 105 [] c = "l" -> 108 [] c = "o" -> 111
    [] c = "p" -> 112 [] c = "r" -> 114 [] c = "s" -> 115 [] c = "t" -> 116

\* a < b for strs: lexicographic by code point, a proper prefix first
RECURSIVE str_less(_, _)
str_less(a, b) ==
  IF b = <<>> THEN FALSE
  ELSE IF a = <<>> THEN TRUE
  ELSE IF Head(a) # Head(b) THEN Ord(Head(a)) < Ord(Head(b))
  ELSE str_less(Tail(a), Tail(b))

\* sorted(vocab)
RECURSIVE sorted(_)
sorted(S) ==
  IF S = {} THEN <<>>
  ELSE LET least == CHOOSE x \in S : \A y \in S \ {x} : str_less(x, y)
       IN <<least>> \o sorted(S \ {least})

SeqToSet(xs) == {xs[k] : k \in DOMAIN xs}

\* vocab |= set(story + q + [answer]) over train_stories + test_stories
vocabulary(examples) ==
  UNION {SeqToSet(examples[k].story.v \o examples[k].q \o <<examples[k].a>>) :
           k \in DOMAIN examples}

\* mutant of max_of: the minimum instead of the maximum
min_of(S) == CHOOSE x \in S : \A y \in S : x <= y

\* max(...) of a non-empty collection of lengths
max_of(S) == CHOOSE x \in S : \A y \in S : y <= x

\* mutant of make_word_idx: ids start at 0, the padding id
make_word_idx_from_zero(vocab) == {<<vocab[k], k - 1>> : k \in DOMAIN vocab}

\* dict((c, i + 1) for i, c in enumerate(vocab)), as its set of items
make_word_idx(vocab) == {<<vocab[k], (k - 1) + 1>> : k \in DOMAIN vocab}

has_key(widx, w) == \E item \in widx : item[1] = w
lookup(widx, w) == (CHOOSE item \in widx : item[1] = w)[2]

\* [self.word_idx[w] for w in ws]; a missing key raises KeyError
RECURSIVE lookup_all(_, _)
lookup_all(widx, ws) ==
  IF ws = <<>> THEN <<>>
  ELSE <<lookup(widx, Head(ws))>> \o lookup_all(widx, Tail(ws))

Zeros(n) == [k \in 1..n |-> 0]

\* mutant of pad_row: rows are left as long as they are
pad_row_unpadded(row, maxlen) == row

\* one row of pad_sequences(..., maxlen) with its defaults padding='pre',
\* truncating='pre', value=0: s[-maxlen:] written right-aligned into a row of
\* maxlen zeros (s[-0:] is all of s, which no row of width 0 can take)
pad_row(row, maxlen) ==
  LET trunc == IF maxlen = 0 \/ Len(row) <= maxlen THEN row
               ELSE SubSeq(row, Len(row) - maxlen + 1, Len(row))
  IN Zeros(maxlen - Len(trunc)) \o trunc

pad_raises(rows, maxlen) ==
  maxlen = 0 /\ \E k \in DOMAIN rows : Len(rows[k]) > 0

pad_sequences(rows, maxlen) == [k \in DOMAIN rows |-> pad_row(rows[k], maxlen)]

\* vectorize_stories(data) under self.word_idx and the two maximum lengths
vectorize_stories(examples, widx, smax, qmax) ==
  IF \E k \in DOMAIN examples :
       \E w \in SeqToSet(examples[k].story.v \o examples[k].q \o <<examples[k].a>>) :
         ~has_key(widx, w)
  THEN [err |-> "KeyError", inputs |-> <<>>, queries |-> <<>>, answers |-> <<>>]
  ELSE LET ins == [k \in DOMAIN examples |-> lookup_all(widx, examples[k].story.v)]
           qs == [k \in DOMAIN examples |-> lookup_all(widx, examples[k].q)]
           as == [k \in DOMAIN examples |-> lookup(widx, examples[k].a)]
       IN IF pad_raises(ins, smax) \/ pad_raises(qs, qmax)
          THEN [err |-> "ValueError", inputs |-> <<>>, queries |-> <<>>,
                answers |-> <<>>]
          ELSE [err |-> "", inputs |-> pad_sequences(ins, smax),
                queries |-> pad_sequences(qs, qmax), answers |-> as]

\* failures get_file can raise
DownloadErrors == {"Exception", "OSError"}

\* mutant of on_download_error: the failure is reported and swallowed
on_download_error_swallowed(e) == [printed |-> 1, pc |-> "extract_train", err |-> ""]

\* the except clause of lines 77-81: print the remediation message, re-raise
on_download_error(e) == [printed |-> 1, pc |-> "raised", err |-> e]

DataInit ==
  /\ splitsOnEmpty \in BOOLEAN
  /\ pc = "get_file" /\ err = ""
  /\ sent = <<>> /\ tokens = <<>>
  /\ ParseIdle /\ DataIdle

GetFileOk ==
  /\ pc = "get_file"
  /\ fetch' = "ok"
  /\ pc' = "extract_train"
  /\ UNCHANGED <<splitsOnEmpty, err, printed, opened, attrs, train_stories,
                 test_stories, vocab_size, story_maxlen, query_maxlen,
                 word_idx, pickled, inputs_train, queries_train,
                 answers_train, inputs_test, queries_test, answers_test>>
  /\ UNCHANGED tokVars /\ UNCHANGED parseVars

GetFileFails ==
  /\ pc = "get_file"
  /\ \E e \in DownloadErrors :
       LET h == on_download_error(e) IN
         /\ fetch' = e
         /\ printed' = printed + h.printed
         /\ pc' = h.pc
         /\ err' = h.err
  /\ UNCHANGED <<splitsOnEmpty, opened, attrs, train_stories,
                 test_stories, vocab_size, story_maxlen, query_maxlen,
                 word_idx, pickled, inputs_train, queries_train,
                 answers_train, inputs_test, queries_test, answers_test>>
  /\ UNCHANGED tokVars /\ UNCHANGED parseVars

\* with tarfile.open(path) as tar: train_stories = get_stories(...'train')
ExtractTrain ==
  /\ pc = "extract_train"
  /\ opened' = TRUE
  /\ \E f \in FilesOver(DataBodies) :
       LET r == get_stories(f, FALSE, <<>>) IN
         /\ train_stories' = r.val
         /\ err' = r.err
         /\ pc' = IF r.err # "" THEN "raised" ELSE "extract_test"
  /\ UNCHANGED <<splitsOnEmpty, fetch, printed, attrs,
                 test_stories, vocab_size, story_maxlen, query_maxlen,
                 word_idx, pickled, inputs_train, queries_train,
                 answers_train, inputs_test, queries_test, answers_test>>
  /\ UNCHANGED tokVars /\ UNCHANGED parseVars

\* test_stories = get_stories(...'test')
ExtractTest ==
  /\ pc = "extract_test"
  /\ \E f \in FilesOver(DataBodies) :
       LET r == get_stories(f, FALSE, <<>>) IN
         /\ test_stories' = r.val
         /\ err' = r.err
         /\ pc' = IF r.err # "" THEN "raised" ELSE "vocab"
  /\ UNCHANGED <<splitsOnEmpty, fetch, printed, opened, attrs,
                 train_stories, vocab_size, story_maxlen, query_maxlen,
                 word_idx, pickled, inputs_train, queries_train,
                 answers_train, inputs_test, queries_test, answers_test>>
  /\ UNCHANGED tokVars /\ UNCHANGED parseVars

\* lines 98-122: vocab, vocab_size, the maximum lengths (max of nothing
\* raises ValueError), print(train_stories[0]) (IndexError when there is
\* none), word_idx and its pickle
BuildVocab ==
  /\ pc = "vocab"
  /\ LET all == train_stories \o test_stories
         vocab == sorted(vocabulary(all))
     IN /\ vocab_size' = Len(vocab) + 1
        /\ IF all = <<>>
           THEN /\ attrs' = attrs \cup {"vocab_size"}
                /\ pc' = "raised" /\ err' = "ValueError"
                /\ UNCHANGED <<story_maxlen, query_maxlen, word_idx, pickled>>
           ELSE /\ story_maxlen' = max_of({Len(all[k].story.v) : k \in DOMAIN all})
                /\ query_maxlen' = max_of({Len(all[k].q) : k \in DOMAIN all})
                /\ IF train_stories = <<>>
                   THEN /\ attrs' = attrs \cup {"vocab_size", "story_maxlen",
                                                "query_maxlen"}
                        /\ pc' = "raised" /\ err' = "IndexError"
                        /\ UNCHANGED <<word_idx, pickled>>
                   ELSE /\ attrs' = attrs \cup {"vocab_size", "story_maxlen",
                                                "query_maxlen", "word_idx"}
                        /\ word_idx' = make_word_idx(vocab)
                        /\ pickled' = TRUE
                        /\ pc' = "vectorize_train" /\ err' = err
  /\ UNCHANGED <<splitsOnEmpty, fetch, printed, opened, train_stories,
                 test_stories, inputs_train, queries_train,
                 answers_train, inputs_test, queries_test, answers_test>>
  /\ UNCHANGED tokVars /\ UNCHANGED parseVars

\* line 123
VectorizeTrain ==
  /\ pc = "vectorize_train"
  /\ LET r == vectorize_stories(train_stories, word_idx, story_maxlen,
                                query_maxlen)
     IN /\ inputs_train' = r.inputs
        /\ queries_train' = r.queries
        /\ answers_train' = r.answers
        /\ err' = r.err
        /\ pc' = IF r.err # "" THEN "raised" ELSE "vectorize_test"
        /\ attrs' = IF r.err # "" THEN attrs
                    ELSE attrs \cup {"inputs_train", "queries_train",
                                     "answers_train"}
  /\ UNCHANGED <<splitsOnEmpty, fetch, printed, opened, train_stories,
                 test_stories, vocab_size, story_maxlen, query_maxlen,
                 word_idx, pickled, inputs_test, queries_test, answers_test>>
  /\ UNCHANGED tokVars /\ UNCHANGED parseVars

\* line 124
VectorizeTest ==
  /\ pc = "vectorize_test"
  /\ LET r == vectorize_stories(test_stories, word_idx, story_maxlen,
                                query_maxlen)
     IN /\ inputs_test' = r.inputs
        /\ queries_test' = r.queries
        /\ answers_test' = r.answers
        /\ err' = r.err
        /\ pc' = IF r.err # "" THEN "raised" ELSE "constructed"
        /\ attrs' = IF r.err # "" THEN attrs
                    ELSE attrs \cup {"inputs_test", "queries_test",
                                     "answers_test"}
  /\ UNCHANGED <<splitsOnEmpty, fetch, printed, opened, train_stories,
                 test_stories, vocab_size, story_maxlen, query_maxlen,
                 word_idx, pickled, inputs_train, queries_train,
                 answers_train>>
  /\ UNCHANGED tokVars /\ UNCHANGED parseVars

DataNext ==
  \/ GetFileOk
  \/ GetFileFails
  \/ ExtractTrain
  \/ ExtractTest
  \/ BuildVocab
  \/ VectorizeTrain
  \/ VectorizeTest

SpecData == DataInit /\ [][DataNext]_vars

(***************************************************************************)
(* Vocabulary of the properties: what the lines of the file say.           *)
(***************************************************************************)
NidOf(raw) == int(split_once(strip(raw), " ")[1])
RestOf(raw) == split_once(strip(raw), " ")[2]
IsQuestion(raw) == \E k \in DOMAIN RestOf(raw) : RestOf(raw)[k] = "\t"
Fields(raw) == split_char(RestOf(raw), "\t")

\* the first line of the story that line j belongs to
StoryStart(j) ==
  LET ones == {k \in 1..j : NidOf(lines[k]) = 1} IN
  IF ones = {} THEN 1 ELSE CHOOSE k \in ones : \A m \in ones : m <= k

\* the n-th smallest element of a set of numbers
NthOf(S, n) == CHOOSE p \in S : Cardinality({q \in S : q < p}) = n - 1

\* the line that the n-th emitted triple comes from
QuestionLines == {k \in DOMAIN lines : IsQuestion(lines[k])}
NthQuestion(n) == NthOf(QuestionLines, n)

\* what line k leaves in the story buffer
Entry(k) ==
  IF IsQuestion(lines[k]) THEN StrVal(<<>>)
  ELSE ListVal(tokenize(RestOf(lines[k])))

\* the tokenized statements among lines r..(j-1), in line order
RECURSIVE ContextOf(_, _)
ContextOf(r, j) ==
  IF r >= j THEN <<>>
  ELSE (IF IsQuestion(lines[r]) THEN <<>> ELSE <<Entry(r)>>)
       \o ContextOf(r + 1, j)

\* the tokenized sentence of line k, a question line's being its question
SentenceOf(k) ==
  ListVal(tokenize(IF IsQuestion(lines[k]) THEN Fields(lines[k])[1]
                   ELSE RestOf(lines[k])))

\* the ids listed after the answer of question line j
ListedIds(j) ==
  LET ids == split_ws(Fields(lines[j])[3]) IN
  [m \in 1..Len(ids) |-> int(ids[m])]

RECURSIVE ConcatTokens(_)
ConcatTokens(xs) ==
  IF xs = <<>> THEN <<>> ELSE Head(xs).v \o ConcatTokens(Tail(xs))

(***************************************************************************)
(* Properties of tokenize (under SpecTok).                                 *)
(***************************************************************************)
IsWordAt(s, p) == s[p] \in WordChars

RunStarts(s) ==
  {p \in DOMAIN s : p = 1 \/ IsWordAt(s, p) # IsWordAt(s, p - 1)}

RunEnd(s, p) ==
  CHOOSE q \in p..Len(s) :
    /\ \A k \in p..q : IsWordAt(s, k) = IsWordAt(s, p)
    /\ q = Len(s) \/ IsWordAt(s, q + 1) # IsWordAt(s, p)

HasPunct(s, p) == \E k \in p..RunEnd(s, p) : s[k] \in PunctChars

KeptStarts(s) == {p \in RunStarts(s) : IsWordAt(s, p) \/ HasPunct(s, p)}

\* a word run as it stands; a non-word run from its first to its last
\* non-whitespace character
RunToken(s, p) ==
  IF IsWordAt(s, p) THEN SubSeq(s, p, RunEnd(s, p))
  ELSE LET ps == {k \in p..RunEnd(s, p) : s[k] \notin SpaceChars}
           lo == CHOOSE k \in ps : \A m \in ps : k <= m
           hi == CHOOSE k \in ps : \A m \in ps : m <= k
       IN SubSeq(s, lo, hi)

ExpectedTokens(s) ==
  [n \in 1..Cardinality(KeptStarts(s)) |-> RunToken(s, NthOf(KeptStarts(s), n))]

\* C10: tokenize returns, for every line, one token per maximal run of word
\* characters and one per maximal run of non-word characters that holds a
\* punctuation character (whitespace stripped), in input order; the doctest
\* sentence yields the doctest's ten tokens.
C10_TokenizeRuns ==
  pc # "tokenize" =>
    /\ pc = "tokenized"
    /\ tokens = ExpectedTokens(sent)
    /\ sent = Doctest => tokens = DoctestTokens

\* C10, as far as the code goes: on an interpreter whose re.split does not
\* split on empty matches, tokenize returns exactly those tokens.
C10_LegacyTokenizeRuns ==
  (pc # "tokenize" /\ ~splitsOnEmpty) =>
    /\ pc = "tokenized"
    /\ tokens = ExpectedTokens(sent)
    /\ sent = Doctest => tokens = DoctestTokens

\* whereas one that does split on empty matches makes every call raise
C10_EmptySplitRaises ==
  (pc # "tokenize" /\ splitsOnEmpty) => (pc = "raised" /\ err = "AttributeError")

(***************************************************************************)
(* Properties of parse_stories and get_stories (under SpecParse).          *)
(***************************************************************************)
\* C1: a line with id 1 empties the story buffer before it is processed, and
\* the context of every emitted triple holds only what the lines of its own
\* story, from the most recent id-1 line on, left in the buffer.
C1_ResetOnIdOne ==
  /\ (pc = "parse" /\ i > 0) =>
       story = [m \in 1..(i - StoryStart(i) + 1) |-> Entry(StoryStart(i) + m - 1)]
  /\ \A n \in DOMAIN data :
       LET j == NthQuestion(n)
           r == StoryStart(j)
       IN \A m \in DOMAIN data[n].story :
            \E k \in r..(j - 1) : data[n].story[m] = Entry(k)

\* a triple emitted in a second story, with its own context, after a first
\* story whose statement the second does not contain
C1_Witness ==
  \E n \in DOMAIN data :
    LET j == NthQuestion(n)
        r == StoryStart(j)
    IN /\ r > 1
       /\ data[n].story # <<>>
       /\ \E k \in 1..(r - 1) :
            /\ ~IsQuestion(lines[k])
            /\ \A m \in r..(j - 1) : Entry(m) # Entry(k)

\* C2: with only_supporting, for a question line of a story whose ids run
\* consecutively from 1, the context is the tokenized sentences of the listed
\* lines in listed order - whichever earlier line of the story an id names.
C2_SupportingContext ==
  only_supporting =>
    \A n \in DOMAIN data :
      LET j == NthQuestion(n)
          r == StoryStart(j)
          ids == ListedIds(j)
      IN (/\ NidOf(lines[r]) = 1
          /\ \A m \in DOMAIN ids : ids[m] \in 1..(j - r))
         => data[n].story = [m \in DOMAIN ids |-> SentenceOf(r + ids[m] - 1)]

\* C2 as far as the code goes: it holds when every listed id names a
\* statement line; an id that names an earlier question line yields the ''
\* placeholder of line 55.
C2_StatementIdsOnly ==
  only_supporting =>
    \A n \in DOMAIN data :
      LET j == NthQuestion(n)
          r == StoryStart(j)
          ids == ListedIds(j)
      IN (/\ NidOf(lines[r]) = 1
          /\ \A m \in DOMAIN ids : ids[m] \in 1..(j - r))
         => data[n].story =
              [m \in DOMAIN ids |->
                 IF IsQuestion(lines[r + ids[m] - 1]) THEN StrVal(<<>>)
                 ELSE SentenceOf(r + ids[m] - 1)]

\* C3: without only_supporting, the context of every emitted triple is the
\* tokenized statement lines of the current story before the question, in
\* line order, earlier questions leaving no placeholder.
C3_FullContext ==
  ~only_supporting =>
    \A n \in DOMAIN data :
      LET j == NthQuestion(n) IN
      data[n].story = ContextOf(StoryStart(j), j)

\* a question whose story holds an earlier question and a statement before it
C3_Witness ==
  /\ ~only_supporting
  /\ \E n \in DOMAIN data :
       LET j == NthQuestion(n)
           r == StoryStart(j)
       IN /\ data[n].story # <<>>
          /\ \E k \in (r + 1)..(j - 1) :
               IsQuestion(lines[k]) /\ ~IsQuestion(lines[k - 1])

\* C4: for a well-formed file, get_stories without max_length (and with the
\* default only_supporting) completes and returns one example per question
\* line, in order, its story the concatenated tokens of its context and its
\* answer the second tab-separated field.
C4_OneExamplePerQuestion ==
  (/\ pc \in {"returned", "raised"}
   /\ ~splitsOnEmpty /\ ~only_supporting /\ max_length = <<>>)
  => /\ pc = "returned"
     /\ Len(stories) = Cardinality(QuestionLines)
     /\ \A n \in DOMAIN stories :
          LET j == NthQuestion(n) IN
          /\ stories[n].story = ListVal(ConcatTokens(ContextOf(StoryStart(j), j)))
          /\ stories[n].a = Fields(lines[j])[2]

LengthAtMost(e) == Len(e.story.v) <= max_length[1]

\* C9: with max_length supplied, exactly the examples whose flattened story
\* is longer than max_length are discarded; the others, those of exactly
\* max_length tokens among them, are kept in order.
C9_KeepsUpToMaxLength ==
  (pc = "returned" /\ max_length # <<>> /\ max_length[1] > 0)
  => stories = SelectSeq(flatten_all(data, <<>>).val, LengthAtMost)

(***************************************************************************)
(* Properties of Data.__init__ (under SpecData).                           *)
(***************************************************************************)
AllExamples == train_stories \o test_stories

TokensOf(e) == SeqToSet(e.story.v \o e.q \o <<e.a>>)

TokensIn(examples) == UNION {TokensOf(examples[k]) : k \in DOMAIN examples}

\* C5: once word_idx is built, every token of a story, question or answer
\* of either split is a key, each key has one id, distinct tokens have
\* distinct ids, every id is in 1..vocab_size-1, and none is the padding id 0.
C5_VocabularyCoversTokens ==
  "word_idx" \in attrs =>
    /\ \A w \in TokensIn(AllExamples) : \E item \in word_idx : item[1] = w
    /\ \A x, y \in word_idx : (x[1] = y[1]) <=> (x[2] = y[2])
    /\ \A item \in word_idx : item[2] \in 1..(vocab_size - 1)
    /\ \A item \in word_idx : item[2] # 0

\* word_idx built over two non-empty splits, the test split holding a token
\* the train split lacks
C5_Witness ==
  /\ "word_idx" \in attrs
  /\ train_stories # <<>> /\ test_stories # <<>>
  /\ TokensIn(test_stories) \ TokensIn(train_stories) # {}
  /\ Cardinality(word_idx) >= 3

RowsMatch(examples, inputs, queries, answers) ==
  /\ Len(inputs) = Len(examples)
  /\ Len(queries) = Len(examples)
  /\ Len(answers) = Len(examples)
  /\ \A k \in DOMAIN examples :
       /\ Len(inputs[k]) = story_maxlen
       /\ Len(queries[k]) = query_maxlen

\* C6: every vectorized story row is story_maxlen long and every question
\* row query_maxlen long, these being the maxima over both splits, and each
\* output has one entry per example.
C6_FixedWidthRows ==
  /\ "story_maxlen" \in attrs =>
       /\ \A k \in DOMAIN AllExamples :
            /\ Len(AllExamples[k].story.v) <= story_maxlen
            /\ Len(AllExamples[k].q) <= query_maxlen
       /\ \E k \in DOMAIN AllExamples : Len(AllExamples[k].story.v) = story_maxlen
       /\ \E k \in DOMAIN AllExamples : Len(AllExamples[k].q) = query_maxlen
  /\ "inputs_train" \in attrs =>
       RowsMatch(train_stories, inputs_train, queries_train, answers_train)
  /\ "inputs_test" \in attrs =>
       RowsMatch(test_stories, inputs_test, queries_test, answers_test)

\* both splits vectorized, with a story and a question shorter than the maxima
C6_Witness ==
  /\ pc = "constructed"
  /\ test_stories # <<>>
  /\ \E k \in DOMAIN AllExamples : Len(AllExamples[k].story.v) < story_maxlen
  /\ \E k \in DOMAIN AllExamples : Len(AllExamples[k].q) < query_maxlen

HasToken(id) == \E item \in word_idx : item[2] = id
TokenOf(id) == (CHOOSE item \in word_idx : item[2] = id)[1]
IsRealId(id) == id # 0

\* row is zeros, then the ids of ws in order; dropping the zeros and mapping
\* the ids back gives ws
RoundTrips(row, ws) ==
  LET n == Len(ws)
      pad == Len(row) - n
      ids == SelectSeq(row, IsRealId)
  IN /\ pad >= 0
     /\ \A p \in 1..pad : row[p] = 0
     /\ \A p \in 1..n : HasToken(row[pad + p]) /\ TokenOf(row[pad + p]) = ws[p]
     /\ Len(ids) = n
     /\ \A p \in 1..n : TokenOf(ids[p]) = ws[p]

VectorsRoundTrip(examples, inputs, queries, answers) ==
  \A k \in DOMAIN examples :
    /\ RoundTrips(inputs[k], examples[k].story.v)
    /\ RoundTrips(queries[k], examples[k].q)
    /\ HasToken(answers[k]) /\ TokenOf(answers[k]) = examples[k].a

\* C7: each vectorized story and question row is padding zeros followed by
\* the ids of the tokens in order, none dropped, so that removing the padding
\* and mapping back through the inverse of word_idx reproduces the tokens;
\* the answer id maps back to the answer.
C7_RoundTrip ==
  /\ "inputs_train" \in attrs =>
       VectorsRoundTrip(train_stories, inputs_train, queries_train, answers_train)
  /\ "inputs_test" \in attrs =>
       VectorsRoundTrip(test_stories, inputs_test, queries_test, answers_test)

\* both splits vectorized, one story row padded and another filling the row
C7_Witness ==
  /\ pc = "constructed"
  /\ \E k \in DOMAIN inputs_test : inputs_test[k][1] = 0
  /\ \E k \in DOMAIN inputs_train : inputs_train[k][1] # 0
  /\ \E k \in DOMAIN queries_train : queries_train[k] # <<>> /\ queries_train[k][1] = 0

\* C8: when get_file fails, the remediation message is printed once, the
\* failure itself propagates, nothing is retried and no later step runs.
C8_DownloadFailureIsFatal ==
  fetch \in DownloadErrors =>
    /\ printed = 1
    /\ pc = "raised" /\ err = fetch
    /\ ~opened /\ ~pickled /\ attrs = {}
    /\ train_stories = <<>> /\ test_stories = <<>>
    /\ word_idx = {}
    /\ inputs_train = <<>> /\ queries_train = <<>> /\ answers_train = <<>>
    /\ inputs_test = <<>> /\ queries_test = <<>> /\ answers_test = <<>>

C8_Witness == fetch \in DownloadErrors /\ pc = "raised" /\ printed = 1

====
